---- MODULE Spec2Model ----
(***************************************************************************)
(* Seat-inventory model of the IRCTC backend: the relational store         *)
(* (trains, train_schedules, seat_availability, bookings, passengers),     *)
(* the booking request handler (BookingCreateView.post ->                  *)
(* BookingCreateSerializer.is_valid / create) run by concurrent request    *)
(* threads, and the administrative create-train-with-schedule handler.     *)
(***************************************************************************)
EXTENDS Integers, Sequences, FiniteSets, TLC

\* ------------------------------------------------------------------ bounds
MaxRequests == 2       \* concurrent booking requests
MaxSeats == 3          \* largest Train.total_seats drawn
MaxSchedules == 2      \* rows of train_schedules
MaxDay == 1            \* last calendar day of the model's clock
MaxLogs == 2           \* documents the api_logs collection holds at most

\* ------------------------------------------------------- program constants
MaxPassengers == 6     \* validate_passengers: len(value) > 6
MinAge == 1            \* PassengerInputSerializer.age min_value
MaxAge == 120          \* PassengerInputSerializer.age max_value

HTTP_200_OK == 200
HTTP_201_CREATED == 201
HTTP_400_BAD_REQUEST == 400
HTTP_401_UNAUTHORIZED == 401

GenderChoices == {"M", "F", "O"}

Requests == 1..MaxRequests
Pnrs == 0..MaxRequests          \* reservation codes generate_pnr can return
ScheduleIds == 1..MaxSchedules
TrainNumbers == {"T1"}
Days == 0..MaxDay

VARIABLES
    today,        \* timezone.now().date()
    rowLocking,   \* TRUE: select_for_update() takes a row lock (MySQL);
                  \* FALSE: the backend ignores it (SQLite)
    trains,       \* table trains: train_number -> row
    schedules,    \* table train_schedules: sequence, id = index
    avail,        \* table seat_availability: schedule id -> row
    bookings,     \* table bookings (committed rows): sequence, id = index
    passengers,   \* table passengers (committed rows)
    lockHolder,   \* seat_availability row lock: schedule id -> request or 0
    req,          \* per booking request thread: position and locals
    adm,          \* the administrative request thread: position and locals
    rng,          \* per booking request: the code generate_pnr() returns
    mongo,        \* the MongoDB server, utils.mongo's globals, its collections
    web,          \* the search/analytics request thread: position and locals
    user,         \* per booking request: request.user, 0 when anonymous
    seed          \* the seed_db command: position and uncommitted rows

vars == <<today, rowLocking, trains, schedules, avail, bookings,
          passengers, lockHolder, req, adm, rng, mongo, web, user, seed>>

\* what is chosen once and never changes
fixed == <<rowLocking, rng, user>>

db == <<trains, schedules, avail, bookings, passengers>>

\* the event sink and its client
sink == <<mongo, web>>

\* what the booking and administrative handlers never touch
outside == <<fixed, sink, seed>>

env == <<today, adm, outside>>

\* ------------------------------------------------------------ models.py
\* available_seats that forgets the seats already booked
available_seats_total(row, total_seats) == total_seats

\* SeatAvailability.available_seats: schedule.train.total_seats - booked_seats
available_seats(row, total_seats) == total_seats - row.booked_seats

\* can_book with the comparison off by one
can_book_lax(row, total_seats, num_seats) ==
    available_seats(row, total_seats) >= num_seats - 1

\* SeatAvailability.can_book
can_book(row, total_seats, num_seats) ==
    available_seats(row, total_seats) >= num_seats

\* total_seats of the train a schedule belongs to (schedule.train.total_seats)
TotalSeats(s) == trains[schedules[s].train].total_seats

\* rows of tables trains and train_schedules
TrainRow(total_seats, is_active) ==
    [total_seats |-> total_seats, is_active |-> is_active]

ScheduleRow(train, runs_on, is_active) ==
    [train |-> train, runs_on |-> runs_on, is_active |-> is_active,
     base_fare |-> 1]

\* ------------------------------------------------- bookings/serializers.py
\* (variant: the age field without its lower limit)
PassengerInputSerializerAgeZero(p) ==
    /\ p.age >= MinAge - 1
    /\ p.age <= MaxAge
    /\ p.gender \in GenderChoices

\* PassengerInputSerializer: age is IntegerField(min_value=1,
\* max_value=120), gender a ChoiceField over M, F, O
PassengerInputSerializer(p) ==
    /\ p.age >= MinAge
    /\ p.age <= MaxAge
    /\ p.gender \in GenderChoices

\* BookingCreateSerializer.validate_passengers (after every item validated)
validate_passengers(value) ==
    /\ \A i \in 1..Len(value) : PassengerInputSerializer(value[i])
    /\ Len(value) # 0
    /\ ~(Len(value) > MaxPassengers)

\* BookingCreateSerializer.validate_schedule_id: the row exists with
\* is_active and train__is_active, and runs_on is not before today
validate_schedule_id(value) ==
    /\ value \in DOMAIN schedules
    /\ schedules[value].is_active
    /\ trains[schedules[value].train].is_active
    /\ ~(schedules[value].runs_on < today)

NoData == [schedule_id |-> 0, passengers |-> << >>]
NoAvailability == [booked_seats |-> 0, version |-> 0]

\* a request thread before BookingCreateView.post runs, holding the
\* request body (request.data) its client sent; seen is the booked_seats
\* validate() found, expected and updated are the version the conditional
\* update was keyed on and the rows it matched
NewRequest(data) ==
    [pc |-> "start", data |-> data, saved |-> FALSE,
     availability |-> NoAvailability,
     booking |-> << >>, tPassengers |-> << >>, tAvail |-> << >>,
     seen |-> -1, expected |-> -1, updated |-> -1, outcome |-> "",
     reported |-> -1]

\* leaving transaction.atomic() by an exception, or is_valid() returning
\* False: every uncommitted write of the request is discarded
Rollback(r, outcome, reported) ==
    [req[r] EXCEPT !.pc = "done", !.availability = NoAvailability,
                   !.booking = << >>, !.tPassengers = << >>,
                   !.tAvail = << >>, !.outcome = outcome,
                   !.reported = reported]

\* (variant: the end of a transaction leaves its row locks in place)
ReleaseNone(r) == lockHolder

\* the row locks a request holds are released when its transaction ends
Release(r) == [s \in ScheduleIds |-> IF lockHolder[s] = r THEN 0 ELSE lockHolder[s]]

NumPassengers(r) == Len(req[r].data.passengers)

\* BookingCreateSerializer.validate: the unlocked preliminary seat check;
\* "invalid" when the schedule has no ledger row, "insufficient" when the
\* seats left are too few, else "ok"
validate(attrs) ==
    LET s == attrs.schedule_id IN
    IF s \notin DOMAIN avail THEN "invalid"
    ELSE IF ~can_book(avail[s], TotalSeats(s), Len(attrs.passengers))
    THEN "insufficient"
    ELSE "ok"

\* (variant: permission_classes = [AllowAny])
AllowAny(u) == TRUE

\* permission_classes = [IsAuthenticated]: request.user is a user
IsAuthenticated(u) == u # 0

\* APIView.initial for a request without an identity: the permission check
\* fails before post() is called and the answer is 401
Unauthorized(r) ==
    /\ req[r].pc = "start"
    /\ ~IsAuthenticated(user[r])
    /\ req' = [req EXCEPT ![r] = Rollback(r, "unauthenticated", -1)]
    /\ UNCHANGED <<env, db, lockHolder>>

\* (variant: validate() puts the seats it checked on hold in the ledger)
IsValidHolding(r) ==
    /\ req[r].pc = "start"
    /\ IsAuthenticated(user[r])
    /\ LET data == req[r].data IN
         IF validate_schedule_id(data.schedule_id)
            /\ validate_passengers(data.passengers)
            /\ validate(data) = "ok"
         THEN /\ req' = [req EXCEPT ![r] =
                           [@ EXCEPT !.pc = "begin", !.saved = TRUE,
                                     !.seen = avail[data.schedule_id].booked_seats]]
              /\ avail' = [avail EXCEPT ![data.schedule_id].booked_seats =
                                           @ + Len(data.passengers)]
         ELSE /\ req' = [req EXCEPT ![r] = Rollback(r, "invalid", -1)]
              /\ UNCHANGED avail
    /\ UNCHANGED <<env, trains, schedules, bookings, passengers, lockHolder>>

\* BookingCreateView.post up to serializer.is_valid(): the fields
\* (schedule_id, passengers), then validate(); a failure answers 400
\* before create() is entered
IsValid(r) ==
    /\ req[r].pc = "start"
    /\ IsAuthenticated(user[r])
    /\ LET data == req[r].data IN
         IF ~(validate_schedule_id(data.schedule_id)
              /\ validate_passengers(data.passengers))
         THEN req' = [req EXCEPT ![r] = Rollback(r, "invalid", -1)]
         ELSE IF validate(data) = "ok"
         THEN req' = [req EXCEPT ![r] =
                        [@ EXCEPT !.pc = "begin", !.saved = TRUE,
                                  !.seen = avail[data.schedule_id].booked_seats]]
         ELSE req' = [req EXCEPT ![r] =
                        Rollback(r, validate(data),
                                 IF validate(data) = "insufficient"
                                 THEN available_seats(avail[data.schedule_id],
                                                      TotalSeats(data.schedule_id))
                                 ELSE -1)]
    /\ UNCHANGED <<env, db, lockHolder>>

\* the locked read without the re-check of can_book
SelectForUpdateUnchecked(r) ==
    /\ req[r].pc = "begin"
    /\ LET s == req[r].data.schedule_id IN
         /\ lockHolder[s] \in IF rowLocking THEN {0} ELSE 0..MaxRequests
         /\ req' = [req EXCEPT ![r] =
                      [@ EXCEPT !.pc = "create_booking",
                                !.availability = avail[s]]]
         /\ lockHolder' = IF rowLocking
                          THEN [lockHolder EXCEPT ![s] = r]
                          ELSE lockHolder
    /\ UNCHANGED <<env, db>>

\* (variant: the re-read without select_for_update(): no lock is taken)
SelectForUpdateUnlocked(r) ==
    /\ req[r].pc = "begin"
    /\ LET s == req[r].data.schedule_id IN
         IF ~can_book(avail[s], TotalSeats(s), NumPassengers(r))
         THEN req' = [req EXCEPT ![r] =
                        Rollback(r, "insufficient",
                                 available_seats(avail[s], TotalSeats(s)))]
         ELSE req' = [req EXCEPT ![r] =
                        [@ EXCEPT !.pc = "create_booking",
                                  !.availability = avail[s]]]
    /\ UNCHANGED <<env, db, lockHolder>>

\* create(): transaction.atomic() is entered, the ledger row is read with
\* select_for_update() (with row locking the read waits for the lock) and
\* re-checked with `if not availability.can_book(n)`
SelectForUpdate(r) ==
    /\ req[r].pc = "begin"
    /\ LET s == req[r].data.schedule_id IN
         /\ lockHolder[s] \in IF rowLocking THEN {0} ELSE 0..MaxRequests
         /\ IF ~can_book(avail[s], TotalSeats(s), NumPassengers(r))
            THEN /\ req' = [req EXCEPT ![r] =
                              Rollback(r, "insufficient",
                                       available_seats(avail[s], TotalSeats(s)))]
                 /\ UNCHANGED lockHolder
            ELSE /\ req' = [req EXCEPT ![r] =
                              [@ EXCEPT !.pc = "create_booking",
                                        !.availability = avail[s]]]
                 /\ lockHolder' = IF rowLocking
                                  THEN [lockHolder EXCEPT ![s] = r]
                                  ELSE lockHolder
    /\ UNCHANGED <<env, db>>

\* (variant: the fare of one passenger charged for the whole booking)
NewBookingFlatFare(r) ==
    [by |-> r, pnr |-> rng[r], schedule |-> req[r].data.schedule_id,
     num_passengers |-> NumPassengers(r),
     total_fare |-> schedules[req[r].data.schedule_id].base_fare,
     status |-> "CONFIRMED", confirmed_at |-> today]

\* the row of Booking.objects.create(user, schedule, num_passengers,
\* total_fare, status='CONFIRMED', confirmed_at=now); pnr takes its
\* default, generate_pnr()
NewBooking(r) ==
    [by |-> r, pnr |-> rng[r], schedule |-> req[r].data.schedule_id,
     num_passengers |-> NumPassengers(r),
     total_fare |-> schedules[req[r].data.schedule_id].base_fare * NumPassengers(r),
     status |-> "CONFIRMED", confirmed_at |-> today]

\* the unique index on bookings.pnr: codes of committed rows
PnrsInUse == { bookings[b].pnr : b \in 1..Len(bookings) }

\* codes inserted by transactions of other requests that are still open
PnrsPending(r) ==
    { req[q].booking[1].pnr : q \in { x \in Requests \ {r} : req[x].booking # << >> } }

\* the empty pnr, a value generate_pnr (ten characters) never returns
NoPnr == MaxRequests + 1

\* Booking.save: `if not self.pnr:` draws codes until one is not in the
\* table; a row whose pnr is set is saved with the pnr it has
Booking_save(row) ==
    IF row.pnr = NoPnr
    THEN [row EXCEPT !.pnr = CHOOSE pnr \in Pnrs : pnr \notin PnrsInUse]
    ELSE row

\* (variant: the insert without the unique index on pnr)
CreateBookingNoIndex(r) ==
    /\ req[r].pc = "create_booking"
    /\ req' = [req EXCEPT ![r] =
                 [@ EXCEPT !.pc = "passengers", !.booking = << NewBooking(r) >>]]
    /\ UNCHANGED <<env, db, lockHolder>>

\* create(): Booking.objects.create(...), which builds the row and calls
\* save(). The insert waits while another open transaction holds the same
\* pnr in the unique index, and raises IntegrityError when a committed row
\* has it: the block rolls back and the view answers 400 from
\* `except Exception`
CreateBooking(r) ==
    /\ req[r].pc = "create_booking"
    /\ LET row == Booking_save(NewBooking(r)) IN
         /\ row.pnr \notin PnrsPending(r)
         /\ IF row.pnr \in PnrsInUse
            THEN /\ req' = [req EXCEPT ![r] = Rollback(r, "error", -1)]
                 /\ lockHolder' = Release(r)
            ELSE /\ req' = [req EXCEPT ![r] =
                              [@ EXCEPT !.pc = "passengers",
                                        !.booking = << row >>]]
                 /\ UNCHANGED lockHolder
    /\ UNCHANGED <<env, db>>

\* seat numbering that starts on the last seat already taken
seat_number_overlap(current_booked, i) == current_booked + i

\* seat_number = current_booked + i + 1, i the 0-based position
seat_number(current_booked, i) == current_booked + i + 1

\* create(): one turn of the loop over enumerate(passengers_data)
CreatePassenger(r) ==
    /\ req[r].pc = "passengers"
    /\ Len(req[r].tPassengers) < NumPassengers(r)
    /\ LET i == Len(req[r].tPassengers)
           passenger_data == req[r].data.passengers[i + 1]
           current_booked == req[r].availability.booked_seats IN
         req' = [req EXCEPT ![r].tPassengers =
                   Append(@, [name |-> passenger_data.name,
                              age |-> passenger_data.age,
                              gender |-> passenger_data.gender,
                              seat_number |-> seat_number(current_booked, i)])]
    /\ UNCHANGED <<env, db, lockHolder>>

\* an update that leaves the version as it was
ConditionalUpdateSameVersion(row, e, b) ==
    IF row.version = e
    THEN [updated |-> 1, row |-> [booked_seats |-> b, version |-> e]]
    ELSE [updated |-> 0, row |-> row]

\* an update that is not keyed on the version
ConditionalUpdateUnkeyed(row, e, b) ==
    [updated |-> 1, row |-> [booked_seats |-> b, version |-> e + 1]]

\* SeatAvailability.objects.filter(id=..., version=e).update(booked_seats=b,
\* version=e + 1): the rows matched and the row as written
ConditionalUpdate(row, e, b) ==
    IF row.version = e
    THEN [updated |-> 1, row |-> [booked_seats |-> b, version |-> e + 1]]
    ELSE [updated |-> 0, row |-> row]

\* (variant: a lost conditional update answered with the seats-left error)
UpdateAvailabilitySameError(r) ==
    /\ req[r].pc = "passengers"
    /\ Len(req[r].tPassengers) = NumPassengers(r)
    /\ LET s == req[r].data.schedule_id
           availability == req[r].availability IN
         /\ lockHolder[s] \in {0, r}
         /\ LET res == ConditionalUpdate(avail[s], availability.version,
                          availability.booked_seats + NumPassengers(r)) IN
              IF res.updated = 0
              THEN /\ req' = [req EXCEPT ![r] =
                                [Rollback(r, "insufficient",
                                          available_seats(avail[s], TotalSeats(s)))
                                    EXCEPT !.updated = 0,
                                           !.expected = availability.version]]
                   /\ lockHolder' = Release(r)
              ELSE /\ req' = [req EXCEPT ![r] =
                                [@ EXCEPT !.pc = "commit", !.updated = 1,
                                          !.expected = availability.version,
                                          !.tAvail = << res.row >>]]
                   /\ lockHolder' = [lockHolder EXCEPT ![s] = r]
    /\ UNCHANGED <<env, db>>

\* create(): the conditional ledger update and `if updated == 0: raise`.
\* The UPDATE takes the row's write lock, so it waits for another
\* transaction's uncommitted update of the same row.
UpdateAvailability(r) ==
    /\ req[r].pc = "passengers"
    /\ Len(req[r].tPassengers) = NumPassengers(r)
    /\ LET s == req[r].data.schedule_id
           availability == req[r].availability IN
         /\ lockHolder[s] \in {0, r}
         /\ LET res == ConditionalUpdate(avail[s], availability.version,
                          availability.booked_seats + NumPassengers(r)) IN
              IF res.updated = 0
              THEN /\ req' = [req EXCEPT ![r] =
                                [Rollback(r, "concurrent", -1)
                                    EXCEPT !.updated = 0,
                                           !.expected = availability.version]]
                   /\ lockHolder' = Release(r)
              ELSE /\ req' = [req EXCEPT ![r] =
                                [@ EXCEPT !.pc = "commit", !.updated = 1,
                                          !.expected = availability.version,
                                          !.tAvail = << res.row >>]]
                   /\ lockHolder' = [lockHolder EXCEPT ![s] = r]
    /\ UNCHANGED <<env, db>>

\* rows whose seats are handed out in reverse input order
PassengerRowsReversed(r, booking_id) ==
    { [booking |-> booking_id, pos |-> i,
       name |-> req[r].tPassengers[i].name,
       age |-> req[r].tPassengers[i].age,
       gender |-> req[r].tPassengers[i].gender,
       seat_number |-> req[r].tPassengers[Len(req[r].tPassengers) + 1 - i].seat_number] :
      i \in 1..Len(req[r].tPassengers) }

\* the rows a committing transaction adds to table passengers
PassengerRows(r, booking_id) ==
    { [booking |-> booking_id, pos |-> i,
       name |-> req[r].tPassengers[i].name,
       age |-> req[r].tPassengers[i].age,
       gender |-> req[r].tPassengers[i].gender,
       seat_number |-> req[r].tPassengers[i].seat_number] :
      i \in 1..Len(req[r].tPassengers) }

\* leaving transaction.atomic() normally: the Booking, its Passengers and
\* the ledger update become visible together and the lock is released
Commit(r) ==
    /\ req[r].pc = "commit"
    /\ LET s == req[r].data.schedule_id IN
         /\ bookings' = bookings \o req[r].booking
         /\ passengers' = passengers \cup PassengerRows(r, Len(bookings) + 1)
         /\ avail' = [avail EXCEPT ![s] = req[r].tAvail[1]]
    /\ req' = [req EXCEPT ![r] = Rollback(r, "committed", -1)]
    /\ lockHolder' = Release(r)
    /\ UNCHANGED <<env, trains, schedules>>

\* an abort that keeps the Booking row already inserted (no rollback)
AbortKeepingBooking(r) ==
    /\ req[r].pc \in {"begin", "create_booking", "passengers", "commit"}
    /\ req' = [req EXCEPT ![r] = Rollback(r, "error", -1)]
    /\ lockHolder' = Release(r)
    /\ bookings' = bookings \o req[r].booking
    /\ UNCHANGED <<env, trains, schedules, avail, passengers>>

\* an exception inside transaction.atomic() other than the two raised by
\* create() itself (a database error, a lock-wait timeout): the block
\* rolls back and BookingCreateView.post answers 400 from `except Exception`
Abort(r) ==
    /\ req[r].pc \in {"begin", "create_booking", "passengers", "commit"}
    /\ req' = [req EXCEPT ![r] = Rollback(r, "error", -1)]
    /\ lockHolder' = Release(r)
    /\ UNCHANGED <<env, db>>

\* BookingCreateView, the Response for a finished request q: 401 without
\* an identity; from post(), 201 with the booking; serializer.errors with 400 when is_valid() failed;
\* {'error': str(e)} with 400 for an exception out of serializer.save()
Response(q) ==
    IF q.outcome = "committed"
    THEN [status |-> HTTP_201_CREATED, key |-> "message",
          text |-> "Booking confirmed successfully", seats |-> -1]
    ELSE IF q.outcome = "unauthenticated"
    THEN [status |-> HTTP_401_UNAUTHORIZED, key |-> "detail",
          text |-> "Authentication credentials were not provided.", seats |-> -1]
    ELSE IF ~q.saved
    THEN [status |-> HTTP_400_BAD_REQUEST,
          key |-> IF q.outcome = "insufficient" THEN "passengers" ELSE "field",
          text |-> IF q.outcome = "insufficient"
                   THEN "Only N seats available." ELSE "invalid",
          seats |-> q.reported]
    ELSE [status |-> HTTP_400_BAD_REQUEST, key |-> "error",
          text |-> CASE q.outcome = "insufficient" ->
                          "Seats are no longer available. Only N seats left."
                     [] q.outcome = "concurrent" ->
                          "Booking failed due to concurrent booking. Please try again."
                     [] OTHER -> "exception",
          seats |-> q.reported]

Book(r) ==
    \/ IsValid(r)
    \/ SelectForUpdate(r)
    \/ CreateBooking(r)
    \/ CreatePassenger(r)
    \/ UpdateAvailability(r)
    \/ Commit(r)
    \/ Abort(r)

\* the steps of a request thread that the scheduler runs when they are
\* possible: every statement of post() and create(), the exceptions of
\* Abort left out
Proceed(r) ==
    \/ IsValid(r)
    \/ SelectForUpdate(r)
    \/ CreateBooking(r)
    \/ CreatePassenger(r)
    \/ UpdateAvailability(r)
    \/ Commit(r)

\* --------------------------------------------------- trains/serializers.py
NoAdminData == [train_number |-> "", total_seats |-> 0, runs_on |-> 0]

\* the administrative thread between two requests
AdminIdle == [pc |-> "idle", data |-> NoAdminData, schedule |-> 0]

\* the bodies of POST /api/trains/ that pass TrainWithScheduleSerializer's
\* validation (total_seats has min_value=1; any runs_on is accepted)
AdminInputs ==
    [train_number : TrainNumbers, total_seats : 1..MaxSeats, runs_on : Days]

\* TrainWithScheduleSerializer.create, first statement:
\* Train.objects.update_or_create(train_number=..., defaults={train_name,
\* total_seats, is_active: True}); the statement commits on its own
AdminUpdateOrCreateTrain ==
    /\ adm.pc = "idle"
    /\ Len(schedules) < MaxSchedules
    /\ \E data \in AdminInputs :
         /\ trains' = [t \in DOMAIN trains \cup {data.train_number} |->
                         IF t = data.train_number
                         THEN [total_seats |-> data.total_seats, is_active |-> TRUE]
                         ELSE trains[t]]
         /\ adm' = [pc |-> "schedule", data |-> data, schedule |-> 0]
    /\ UNCHANGED <<today, outside, schedules, avail, bookings, passengers,
                   lockHolder, req>>

\* TrainWithScheduleSerializer.create, second statement:
\* TrainSchedule.objects.create(train=train, ..., is_active=True)
AdminCreateSchedule ==
    /\ adm.pc = "schedule"
    /\ schedules' = Append(schedules,
                           [train |-> adm.data.train_number,
                            runs_on |-> adm.data.runs_on,
                            is_active |-> TRUE, base_fare |-> 1])
    /\ adm' = [adm EXCEPT !.pc = "availability", !.schedule = Len(schedules) + 1]
    /\ UNCHANGED <<today, outside, trains, avail, bookings, passengers,
                   lockHolder, req>>

\* TrainWithScheduleSerializer.create, third statement:
\* SeatAvailability.objects.create(schedule=schedule): booked_seats and
\* version take their defaults, 0
AdminCreateAvailability ==
    /\ adm.pc = "availability"
    /\ avail' = [s \in DOMAIN avail \cup {adm.schedule} |->
                   IF s = adm.schedule
                   THEN [booked_seats |-> 0, version |-> 0]
                   ELSE avail[s]]
    /\ adm' = AdminIdle
    /\ UNCHANGED <<today, outside, trains, schedules, bookings, passengers,
                   lockHolder, req>>

\* an exception between the statements of create(): the view has no
\* transaction around them, so what was written stays
AdminFail ==
    /\ adm.pc \in {"schedule", "availability"}
    /\ adm' = AdminIdle
    /\ UNCHANGED <<today, outside, db, lockHolder, req>>

\* trains/admin.py registers SeatAvailability with a plain ModelAdmin: a
\* staff user's change form saves the row with the booked_seats typed in
\* and the version the form was loaded with (load and save taken
\* together, so the version is the stored one). The UPDATE waits while a
\* transaction holds the row
SeatAvailabilityAdminSave ==
    /\ \E s \in DOMAIN avail, b \in 0..MaxSeats :
         /\ lockHolder[s] = 0
         /\ b # avail[s].booked_seats
         /\ avail' = [avail EXCEPT ![s].booked_seats = b]
    /\ UNCHANGED <<today, outside, trains, schedules, bookings, passengers,
                   lockHolder, req, adm>>

\* trains/admin.py registers TrainSchedule with a plain ModelAdmin: a
\* staff user's change form saves the row with is_active ticked or not
TrainScheduleAdminSave ==
    /\ \E s \in DOMAIN schedules :
         schedules' = [schedules EXCEPT ![s].is_active = ~@]
    /\ UNCHANGED <<today, outside, trains, avail, bookings, passengers,
                   lockHolder, req, adm>>

\* the same for Train: the change form saves is_active of a train
TrainAdminSave ==
    /\ \E t \in DOMAIN trains :
         trains' = [trains EXCEPT ![t].is_active = ~@]
    /\ UNCHANGED <<today, outside, schedules, avail, bookings, passengers,
                   lockHolder, req, adm>>

\* midnight passes
Tick ==
    /\ today < MaxDay
    /\ today' = today + 1
    /\ UNCHANGED <<outside, db, lockHolder, req, adm>>

\* ------------------------------------------- utils/mongo.py, middleware.py
\* the MongoDB server: reachable, unreachable (ConnectionFailure or
\* ServerSelectionTimeoutError), or refusing the client (any other error)
Servers == {"up", "down", "denied"}

LOGGED_ENDPOINT == "/api/trains/search/"
Paths == {LOGGED_ENDPOINT, "/api/bookings/"}

\* module globals _mongo_available (None, True, False) and _mongo_db (is
\* it set), and the collections api_logs and route_analytics (the
\* search_count of the one route searched, 0 when it has no document)
MongoInit ==
    [server |-> "up", _mongo_available |-> "None", _mongo_db |-> FALSE,
     api_logs |-> << >>, route_analytics |-> 0]

NoResponse == [status |-> 0, results |-> 0]
NoResult == [op |-> "", raised |-> FALSE, list |-> << >>, total_requests |-> -1]

WebIdle ==
    [pc |-> "idle", path |-> "", route |-> FALSE, response |-> NoResponse,
     returned |-> NoResponse, raised |-> FALSE, result |-> NoResult]

\* (variant: a failed connection is tried again on the next call)
get_mongo_db_retrying(m) ==
    IF ~m._mongo_db
    THEN CASE m.server = "up" ->
                [m |-> [m EXCEPT !._mongo_db = TRUE, !._mongo_available = "True"],
                 db |-> TRUE, raised |-> FALSE]
           [] m.server = "down" ->
                [m |-> [m EXCEPT !._mongo_available = "False"],
                 db |-> FALSE, raised |-> FALSE]
           [] OTHER -> [m |-> m, db |-> FALSE, raised |-> TRUE]
    ELSE [m |-> m, db |-> TRUE, raised |-> FALSE]

\* get_mongo_db: None once MongoDB is known to be unavailable; connects and
\* pings on first use, catching only ConnectionFailure and
\* ServerSelectionTimeoutError; any other error leaves the function
get_mongo_db(m) ==
    IF m._mongo_available = "False" THEN [m |-> m, db |-> FALSE, raised |-> FALSE]
    ELSE IF ~m._mongo_db
    THEN CASE m.server = "up" ->
                [m |-> [m EXCEPT !._mongo_db = TRUE, !._mongo_available = "True"],
                 db |-> TRUE, raised |-> FALSE]
           [] m.server = "down" ->
                [m |-> [m EXCEPT !._mongo_available = "False"],
                 db |-> FALSE, raised |-> FALSE]
           [] OTHER -> [m |-> m, db |-> FALSE, raised |-> TRUE]
    ELSE [m |-> m, db |-> TRUE, raised |-> FALSE]

\* update_route_analytics: update_one(..., $inc search_count, upsert=True)
\* inside try/except Exception; ok says whether the write succeeded
update_route_analytics(m, ok) ==
    LET g == get_mongo_db(m) IN
    IF g.raised \/ ~g.db \/ ~ok THEN g.m
    ELSE [g.m EXCEPT !.route_analytics = @ + 1]

\* (variant: insert_one outside the try)
log_api_request_unguarded(m, entry, ok_insert, ok_update) ==
    LET g == get_mongo_db(m) IN
    IF g.raised THEN [m |-> g.m, raised |-> TRUE]
    ELSE IF ~g.db THEN [m |-> g.m, raised |-> FALSE]
    ELSE IF ~ok_insert THEN [m |-> g.m, raised |-> TRUE]
    ELSE LET m1 == [g.m EXCEPT !.api_logs = Append(@, entry)] IN
         [m |-> IF entry.route THEN update_route_analytics(m1, ok_update) ELSE m1,
          raised |-> FALSE]

\* log_api_request: get_mongo_db() (outside the try), then insert_one and,
\* for a search with source and destination, update_route_analytics, both
\* inside try/except Exception
log_api_request(m, entry, ok_insert, ok_update) ==
    LET g == get_mongo_db(m) IN
    IF g.raised THEN [m |-> g.m, raised |-> TRUE]
    ELSE IF ~g.db THEN [m |-> g.m, raised |-> FALSE]
    ELSE IF ~ok_insert THEN [m |-> g.m, raised |-> FALSE]
    ELSE LET m1 == [g.m EXCEPT !.api_logs = Append(@, entry)] IN
         [m |-> IF entry.route THEN update_route_analytics(m1, ok_update) ELSE m1,
          raised |-> FALSE]

\* APILoggingMiddleware.__call__ up to `response = self.get_response(request)`:
\* the view answers; TrainSearchView answers 400 without source and
\* destination; only the search path is logged
GetResponse ==
    /\ web.pc \in {"idle", "returned"}
    /\ \E path \in Paths, route \in BOOLEAN, results \in 0..1 :
         LET response == [status |-> IF route THEN HTTP_200_OK
                                     ELSE HTTP_400_BAD_REQUEST,
                          results |-> IF route THEN results ELSE 0]
             should_log == path = LOGGED_ENDPOINT IN
           web' = [web EXCEPT !.pc = IF should_log THEN "log" ELSE "returned",
                              !.path = path, !.route = route,
                              !.response = response,
                              !.returned = IF should_log THEN NoResponse ELSE response,
                              !.raised = FALSE]
    /\ UNCHANGED <<today, adm, fixed, seed, db, lockHolder, req, mongo>>

\* the rest of __call__: log_api_request inside try/except Exception, then
\* `return response`
LogAndReturn ==
    /\ web.pc = "log"
    /\ Len(mongo.api_logs) < MaxLogs
    /\ \E ok_insert \in BOOLEAN, ok_update \in BOOLEAN :
         /\ mongo.server # "up" => ~ok_insert /\ ~ok_update
         /\ LET entry == [response_status |-> web.response.status,
                          route |-> web.route]
                log == log_api_request(mongo, entry, ok_insert, ok_update) IN
              /\ mongo' = log.m
              /\ web' = [web EXCEPT !.pc = "returned",
                                    !.returned = web.response,
                                    !.raised = log.raised]
    /\ UNCHANGED <<today, adm, fixed, seed, db, lockHolder, req>>

\* the documents of api_logs a search with source and destination left
RouteSearches(m) == { i \in 1..Len(m.api_logs) : m.api_logs[i].route }

\* (variant: the aggregation outside the try)
get_top_routes_unguarded(m, ok) ==
    LET g == get_mongo_db(m) IN
    [m |-> g.m, op |-> "get_top_routes", raised |-> g.raised \/ (g.db /\ ~ok),
     list |-> IF g.raised \/ ~g.db \/ ~ok \/ RouteSearches(g.m) = {} THEN << >>
              ELSE << [search_count |-> Cardinality(RouteSearches(g.m))] >>,
     total_requests |-> -1]

\* get_top_routes: [] without a database or when the aggregation raises;
\* else the routes grouped from api_logs with their counts
get_top_routes(m, ok) ==
    LET g == get_mongo_db(m) IN
    [m |-> g.m, op |-> "get_top_routes", raised |-> g.raised,
     list |-> IF g.raised \/ ~g.db \/ ~ok \/ RouteSearches(g.m) = {} THEN << >>
              ELSE << [search_count |-> Cardinality(RouteSearches(g.m))] >>,
     total_requests |-> -1]

\* get_api_logs with its defaults: [] without a database or when find
\* raises; else the documents, latest first
get_api_logs(m, ok) ==
    LET g == get_mongo_db(m) IN
    [m |-> g.m, op |-> "get_api_logs", raised |-> g.raised,
     list |-> IF g.raised \/ ~g.db \/ ~ok THEN << >>
              ELSE [i \in 1..Len(g.m.api_logs) |->
                      g.m.api_logs[Len(g.m.api_logs) + 1 - i]],
     total_requests |-> -1]

\* get_log_stats: total_requests 0 without a database or when the
\* aggregation raises; else the number of documents
get_log_stats(m, ok) ==
    LET g == get_mongo_db(m) IN
    [m |-> g.m, op |-> "get_log_stats", raised |-> g.raised, list |-> << >>,
     total_requests |-> IF g.raised \/ ~g.db \/ ~ok THEN 0
                        ELSE Len(g.m.api_logs)]

\* is_mongodb_available: the cached _mongo_available when it is set, else
\* get_mongo_db() is called and `_mongo_available or False` returned
is_mongodb_available(m) ==
    IF m._mongo_available # "None"
    THEN [m |-> m, op |-> "is_mongodb_available", raised |-> FALSE,
          list |-> << >>, total_requests |-> -1,
          value |-> m._mongo_available = "True"]
    ELSE LET g == get_mongo_db(m) IN
         [m |-> g.m, op |-> "is_mongodb_available", raised |-> g.raised,
          list |-> << >>, total_requests |-> -1,
          value |-> ~g.raised /\ g.m._mongo_available = "True"]

\* a call of one of the query operations between two requests
Query(q) ==
    /\ web.pc \in {"idle", "returned"}
    /\ mongo' = q.m
    /\ web' = [web EXCEPT !.result = [op |-> q.op, raised |-> q.raised,
                                      list |-> q.list,
                                      total_requests |-> q.total_requests]]
    /\ UNCHANGED <<today, adm, fixed, seed, db, lockHolder, req>>

GetTopRoutes ==
    \E ok \in BOOLEAN : (mongo.server # "up" => ~ok) /\ Query(get_top_routes(mongo, ok))

GetApiLogs ==
    \E ok \in BOOLEAN : (mongo.server # "up" => ~ok) /\ Query(get_api_logs(mongo, ok))

GetLogStats ==
    \E ok \in BOOLEAN : (mongo.server # "up" => ~ok) /\ Query(get_log_stats(mongo, ok))

IsMongodbAvailable == Query(is_mongodb_available(mongo))

\* the MongoDB server goes down, comes back, or starts refusing the client
ServerChange ==
    /\ \E s \in Servers \ {mongo.server} : mongo' = [mongo EXCEPT !.server = s]
    /\ UNCHANGED <<today, adm, fixed, seed, db, lockHolder, req, web>>

\* ------------------------------------------ management/commands/seed_db.py
\* trains_data, scaled to two trains of MaxSeats seats
SeedTrains == << "S1", "S2" >>

SeedIdle ==
    [pc |-> "idle", i |-> 0, trains |-> {}, schedules |-> << >>,
     avail |-> << >>, bookings |-> << >>, passengers |-> {}]

\* for each seed train the schedule of tomorrow (the first of the seven
\* days), where get_or_create finds none
SeedCreated ==
    SelectSeq([k \in 1..Len(SeedTrains) |-> ScheduleRow(SeedTrains[k], today + 1, TRUE)],
              LAMBDA row : ~\E s \in DOMAIN schedules :
                               /\ schedules[s].train = row.train
                               /\ schedules[s].runs_on = row.runs_on)

\* handle(): transaction.atomic() is entered; create_trains (get_or_create
\* by train_number), create_schedules (get_or_create by train and date,
\* and a SeatAvailability with booked_seats=0 for each schedule created)
SeedCreate ==
    /\ seed.pc = "idle"
    /\ Len(schedules) + Len(SeedCreated) <= MaxSchedules
    /\ seed' = [pc |-> IF SeedCreated = << >> THEN "commit" ELSE "booking",
                i |-> 0,
                trains |-> { SeedTrains[k] : k \in 1..Len(SeedTrains) } \ DOMAIN trains,
                schedules |-> SeedCreated,
                avail |-> [k \in 1..Len(SeedCreated) |-> NoAvailability],
                bookings |-> << >>, passengers |-> {}]
    /\ UNCHANGED <<today, adm, fixed, sink, db, lockHolder, req>>

\* schedules[i] if i < len(schedules) else schedules[0], counted from 1
SeedSchedule == IF seed.i < Len(seed.schedules) THEN seed.i + 1 ELSE 1

\* create_sample_bookings, for user i: the Booking (CONFIRMED, no
\* confirmed_at) and its two Passengers with seat_number 1 and 2; the two
\* codes generate_pnr returns are taken to be new ones
SeedBooking ==
    /\ seed.pc = "booking"
    /\ seed' = [seed EXCEPT
                  !.pc = "save",
                  !.bookings = Append(@, [by |-> 0, pnr |-> -(seed.i + 1),
                                          schedule |-> SeedSchedule,
                                          num_passengers |-> 2,
                                          total_fare |-> seed.schedules[SeedSchedule].base_fare * 2,
                                          status |-> "CONFIRMED",
                                          confirmed_at |-> -1]),
                  !.passengers = @ \cup
                     { [booking |-> seed.i + 1, pos |-> k, name |-> k,
                        age |-> IF k = 1 THEN 30 ELSE 25, gender |-> "M",
                        seat_number |-> k] : k \in 1..2 }]
    /\ UNCHANGED <<today, adm, fixed, sink, db, lockHolder, req>>

\* availability.booked_seats += 2; availability.save()
SeedSaveAvailability ==
    /\ seed.pc = "save"
    /\ seed' = [seed EXCEPT
                  !.pc = IF seed.i + 1 < 2 THEN "booking" ELSE "commit",
                  !.i = seed.i + 1,
                  !.avail[SeedSchedule].booked_seats = @ + 2]
    /\ UNCHANGED <<today, adm, fixed, sink, db, lockHolder, req>>

\* leaving transaction.atomic(): every row of the seed becomes visible
SeedCommit ==
    /\ seed.pc = "commit"
    /\ trains' = [t \in DOMAIN trains \cup seed.trains |->
                    IF t \in DOMAIN trains THEN trains[t]
                    ELSE TrainRow(MaxSeats, TRUE)]
    /\ schedules' = schedules \o seed.schedules
    /\ avail' = [s \in DOMAIN avail \cup
                        { Len(schedules) + k : k \in 1..Len(seed.avail) } |->
                   IF s \in DOMAIN avail THEN avail[s]
                   ELSE seed.avail[s - Len(schedules)]]
    /\ bookings' = bookings \o
                     [b \in 1..Len(seed.bookings) |->
                        [seed.bookings[b] EXCEPT !.schedule = Len(schedules) + @]]
    /\ passengers' = passengers \cup
                       { [p EXCEPT !.booking = Len(bookings) + @] : p \in seed.passengers }
    /\ seed' = [SeedIdle EXCEPT !.pc = "done"]
    /\ UNCHANGED <<today, adm, fixed, sink, lockHolder, req>>

\* ------------------------------------------------------- request bodies
\* n well-formed passengers, named by their position in the request
ValidList(n) == [i \in 1..n |-> [name |-> i, age |-> MinAge, gender |-> "M"]]

\* passengers at and just outside the limits of PassengerInputSerializer
PassengerSamples ==
    { [name |-> 0, age |-> a, gender |-> "F"] :
        a \in {MinAge - 1, MinAge, MaxAge, MaxAge + 1} }
    \cup { [name |-> 0, age |-> MaxAge, gender |-> g] : g \in {"O", "X"} }

\* list lengths at and just outside the limits of validate_passengers
SampleLengths == {0, 1, 2, MaxPassengers, MaxPassengers + 1}

\* lists of those lengths, at most one passenger of each a sample, in the
\* first or the last place
SampleLists ==
    { ValidList(n) : n \in SampleLengths }
    \cup UNION { { [ValidList(n) EXCEPT ![k] = p] :
                      k \in {1, n}, p \in PassengerSamples } :
                    n \in SampleLengths \ {0} }

\* request bodies of the booking specification: schedule 1 or 2 and up to
\* one passenger more than the largest train seats
SmallInputs ==
    [schedule_id : {1, 2},
     passengers : { ValidList(n) : n \in 1..(MaxSeats + 1) }]

\* request bodies of the validation specification
SampleInputs ==
    [schedule_id : 1..(MaxSchedules + 1), passengers : SampleLists]

\* request threads are interchangeable: they are numbered in the order of
\* their bodies (schedule id, then number of passengers)
InputKey(data) == data.schedule_id * (MaxPassengers + 2) + Len(data.passengers)

Ordered(f) == \A q, r \in Requests : q < r => InputKey(f[q]) <= InputKey(f[r])

\* --------------------------------------------------------- initial states
\* the Booking row an earlier, finished request for n passengers committed
EarlierBooking(s, n) ==
    [by |-> 0, pnr |-> 0, schedule |-> s, num_passengers |-> n, total_fare |-> n,
     status |-> "CONFIRMED", confirmed_at |-> 0]

EarlierPassengers(n) ==
    { [booking |-> 1, pos |-> i, name |-> i, age |-> MinAge, gender |-> "M",
       seat_number |-> i] : i \in 1..n }

\* a store holding one train of MaxSeats seats with two schedules for
\* today; schedule 1 has b0 seats taken by one earlier booking (none when
\* b0 = 0), schedule 2 is fresh and costs twice the fare of schedule 1
InitBooking ==
    /\ today = 0
    /\ rowLocking \in BOOLEAN
    /\ \E c \in {MaxSeats}, b0 \in 0..MaxSeats :
         /\ b0 <= MaxPassengers
         /\ trains = [t \in {"T1"} |-> TrainRow(c, TRUE)]
         /\ schedules = << ScheduleRow("T1", 0, TRUE),
                           [ScheduleRow("T1", 0, TRUE) EXCEPT !.base_fare = 2] >>
         /\ avail = [s \in {1, 2} |->
                       IF s = 1 /\ b0 > 0
                       THEN [booked_seats |-> b0, version |-> 1]
                       ELSE [booked_seats |-> 0, version |-> 0]]
         /\ bookings = IF b0 > 0 THEN << EarlierBooking(1, b0) >> ELSE << >>
         /\ passengers = EarlierPassengers(b0)
    /\ lockHolder = [s \in ScheduleIds |-> 0]
    /\ adm = AdminIdle
    /\ mongo = MongoInit
    /\ web = WebIdle
    /\ seed = SeedIdle
    /\ rng = [r \in Requests |-> r]
    /\ user = [r \in Requests |-> r]
    /\ \E f \in [Requests -> SmallInputs] :
         /\ Ordered(f)
         /\ req = [r \in Requests |-> NewRequest(f[r])]

NextBooking == \E r \in Requests : Book(r)

SpecBooking == InitBooking /\ [][NextBooking]_vars

\* a store holding one train with two schedules: schedule 1 may be
\* inactive or dated before today, the train may be inactive, schedule 2
\* runs on the last day; request 1 sends any sample body, the others one
\* passenger for schedule 2
InitValidate ==
    /\ today \in Days
    /\ rowLocking \in BOOLEAN
    /\ \E train_active \in BOOLEAN, schedule_active \in BOOLEAN, runs_on \in Days :
         /\ trains = [t \in {"T1"} |-> TrainRow(MaxSeats, train_active)]
         /\ schedules = << ScheduleRow("T1", runs_on, schedule_active),
                           ScheduleRow("T1", MaxDay, TRUE) >>
    /\ avail = [s \in {1, 2} |-> NoAvailability]
    /\ bookings = << >>
    /\ passengers = {}
    /\ lockHolder = [s \in ScheduleIds |-> 0]
    /\ adm = AdminIdle
    /\ mongo = MongoInit
    /\ web = WebIdle
    /\ seed = SeedIdle
    /\ rng = [r \in Requests |-> r]
    /\ user = [r \in Requests |-> r]
    /\ \E data \in SampleInputs :
         req = [r \in Requests |->
                  IF r = 1 THEN NewRequest(data)
                  ELSE NewRequest([schedule_id |-> 2, passengers |-> ValidList(1)])]

NextValidate == \E r \in Requests : Book(r)

SpecValidate == InitValidate /\ [][NextValidate]_vars

\* the booking store with one seat taken on schedule 1 by an earlier
\* booking (code 0); every request asks for one seat, and generate_pnr
\* may return any code, the one in use and the same one twice included
InitPnr ==
    /\ today = 0
    /\ rowLocking \in BOOLEAN
    /\ trains = [t \in {"T1"} |-> TrainRow(MaxSeats, TRUE)]
    /\ schedules = << ScheduleRow("T1", 0, TRUE), ScheduleRow("T1", 0, TRUE) >>
    /\ avail = [s \in {1, 2} |->
                  IF s = 1 THEN [booked_seats |-> 1, version |-> 1]
                  ELSE NoAvailability]
    /\ bookings = << EarlierBooking(1, 1) >>
    /\ passengers = EarlierPassengers(1)
    /\ lockHolder = [s \in ScheduleIds |-> 0]
    /\ adm = AdminIdle
    /\ mongo = MongoInit
    /\ web = WebIdle
    /\ seed = SeedIdle
    /\ rng \in [Requests -> Pnrs]
    /\ user = [r \in Requests |-> r]
    /\ \E f \in [Requests -> [schedule_id : {1, 2}, passengers : {ValidList(1)}]] :
         /\ Ordered(f)
         /\ req = [r \in Requests |-> NewRequest(f[r])]

NextPnr == \E r \in Requests : Book(r)

SpecPnr == InitPnr /\ [][NextPnr]_vars

\* the store and requests of InitPnr, generate_pnr returning the code in
\* use (0) or one new code (1), the same for every request that draws it
InitLive ==
    /\ InitPnr
    /\ \A r \in Requests : rng[r] \in {0, 1}

\* these requests run by threads none of which is starved: a statement
\* that stays possible is eventually executed
SpecLive == InitLive /\ [][NextPnr]_vars /\ \A r \in Requests : WF_vars(Proceed(r))

\* the requests of InitPnr with no failure but those create() and the
\* database raise themselves
NextDraw == \E r \in Requests : Proceed(r)

SpecDraw == InitPnr /\ [][NextDraw]_vars

\* the event sink alone: an empty store, no booking request sent yet, the
\* MongoDB server in any state, nothing connected or logged
InitLog ==
    /\ today = 0
    /\ rowLocking \in BOOLEAN
    /\ trains = [t \in {} |-> TrainRow(0, FALSE)]
    /\ schedules = << >>
    /\ avail = [s \in {} |-> NoAvailability]
    /\ bookings = << >>
    /\ passengers = {}
    /\ lockHolder = [s \in ScheduleIds |-> 0]
    /\ adm = AdminIdle
    /\ rng = [r \in Requests |-> r]
    /\ user = [r \in Requests |-> r]
    /\ req = [r \in Requests |->
                NewRequest([schedule_id |-> 1, passengers |-> ValidList(1)])]
    /\ \E s \in Servers : mongo = [MongoInit EXCEPT !.server = s]
    /\ web = WebIdle
    /\ seed = SeedIdle

NextLog ==
    \/ GetResponse
    \/ LogAndReturn
    \/ GetTopRoutes
    \/ GetApiLogs
    \/ GetLogStats
    \/ IsMongodbAvailable
    \/ ServerChange

SpecLog == InitLog /\ [][NextLog]_vars

\* a document of api_logs, and the event sink when an earlier process has
\* left one search (and its counter) in the store
StoredSearch == [response_status |-> HTTP_200_OK, route |-> TRUE]

InitSticky ==
    /\ today = 0
    /\ rowLocking \in BOOLEAN
    /\ trains = [t \in {} |-> TrainRow(0, FALSE)]
    /\ schedules = << >>
    /\ avail = [s \in {} |-> NoAvailability]
    /\ bookings = << >>
    /\ passengers = {}
    /\ lockHolder = [s \in ScheduleIds |-> 0]
    /\ adm = AdminIdle
    /\ rng = [r \in Requests |-> r]
    /\ user = [r \in Requests |-> r]
    /\ req = [r \in Requests |->
                NewRequest([schedule_id |-> 1, passengers |-> ValidList(1)])]
    /\ \E s \in Servers :
         mongo = [MongoInit EXCEPT !.server = s, !.api_logs = << StoredSearch >>,
                                   !.route_analytics = 1]
    /\ web = WebIdle
    /\ seed = SeedIdle

SpecSticky == InitSticky /\ [][NextLog]_vars

\* the store of InitPnr; each request asks for one or two seats and comes
\* with or without an identity
InitAuth ==
    /\ today = 0
    /\ rowLocking \in BOOLEAN
    /\ trains = [t \in {"T1"} |-> TrainRow(MaxSeats, TRUE)]
    /\ schedules = << ScheduleRow("T1", 0, TRUE), ScheduleRow("T1", 0, TRUE) >>
    /\ avail = [s \in {1, 2} |->
                  IF s = 1 THEN [booked_seats |-> 1, version |-> 1]
                  ELSE NoAvailability]
    /\ bookings = << EarlierBooking(1, 1) >>
    /\ passengers = EarlierPassengers(1)
    /\ lockHolder = [s \in ScheduleIds |-> 0]
    /\ adm = AdminIdle
    /\ mongo = MongoInit
    /\ web = WebIdle
    /\ seed = SeedIdle
    /\ rng = [r \in Requests |-> r]
    /\ \E u \in [Requests -> BOOLEAN] : user = [r \in Requests |-> IF u[r] THEN r ELSE 0]
    /\ \E f \in [Requests -> [schedule_id : {1, 2},
                                passengers : {ValidList(1), ValidList(2)}]] :
         req = [r \in Requests |-> NewRequest(f[r])]

NextAuth == \E r \in Requests : Unauthorized(r) \/ Book(r)

SpecAuth == InitAuth /\ [][NextAuth]_vars

\* the store of InitPnr with requests for one or two seats, and the staff
\* user of the admin site at work
NextSite ==
    \/ \E r \in Requests : Book(r)
    \/ SeatAvailabilityAdminSave

InitSite ==
    /\ InitAuth
    /\ user = [r \in Requests |-> r]

SpecSite == InitSite /\ [][NextSite]_vars

\* the store and requests of InitSite while the staff user switches
\* schedules and the train off and on, and midnight passes
NextTimetable ==
    \/ \E r \in Requests : Book(r)
    \/ TrainScheduleAdminSave
    \/ TrainAdminSave
    \/ Tick

SpecTimetable == InitSite /\ [][NextTimetable]_vars

\* an empty store on which seed_db is run while clients ask for one seat
\* on the schedules it creates
InitSeed ==
    /\ today = 0
    /\ rowLocking \in BOOLEAN
    /\ trains = [t \in {} |-> TrainRow(0, FALSE)]
    /\ schedules = << >>
    /\ avail = [s \in {} |-> NoAvailability]
    /\ bookings = << >>
    /\ passengers = {}
    /\ lockHolder = [s \in ScheduleIds |-> 0]
    /\ adm = AdminIdle
    /\ mongo = MongoInit
    /\ web = WebIdle
    /\ seed = SeedIdle
    /\ rng = [r \in Requests |-> r]
    /\ user = [r \in Requests |-> r]
    /\ \E f \in [Requests -> [schedule_id : {1, 2}, passengers : {ValidList(1)}]] :
         req = [r \in Requests |-> NewRequest(f[r])]

NextSeed ==
    \/ SeedCreate
    \/ SeedBooking
    \/ SeedSaveAvailability
    \/ SeedCommit
    \/ \E r \in Requests : Book(r)

SpecSeed == InitSeed /\ [][NextSeed]_vars

\* request bodies of the full specification: any schedule id the table can
\* hold, and up to one passenger more than the largest train seats
Inputs ==
    [schedule_id : ScheduleIds,
     passengers : { ValidList(n) : n \in 1..(MaxSeats + 1) }]

\* the store after migration: every table empty
Init ==
    /\ today = 0
    /\ rowLocking \in BOOLEAN
    /\ trains = [t \in {} |-> TrainRow(0, FALSE)]
    /\ schedules = << >>
    /\ avail = [s \in {} |-> NoAvailability]
    /\ bookings = << >>
    /\ passengers = {}
    /\ lockHolder = [s \in ScheduleIds |-> 0]
    /\ adm = AdminIdle
    /\ mongo = MongoInit
    /\ web = WebIdle
    /\ seed = SeedIdle
    /\ rng = [r \in Requests |-> r]
    /\ user = [r \in Requests |-> r]
    /\ \E f \in [Requests -> Inputs] :
         /\ Ordered(f)
         /\ req = [r \in Requests |-> NewRequest(f[r])]

Next ==
    \/ \E r \in Requests : Book(r)
    \/ AdminUpdateOrCreateTrain
    \/ AdminCreateSchedule
    \/ AdminCreateAvailability
    \/ AdminFail
    \/ Tick

Spec == Init /\ [][Next]_vars

\* ------------------------------------------------------------ properties
\* the ids of the Booking rows of schedule s
BookingsOf(s) == { b \in 1..Len(bookings) : bookings[b].schedule = s }

RECURSIVE SumPassengers(_)
\* the sum of num_passengers over a set of booking ids
SumPassengers(B) ==
    IF B = {} THEN 0
    ELSE LET b == CHOOSE x \in B : TRUE IN
         bookings[b].num_passengers + SumPassengers(B \ {b})

ConfirmedOf(s) == { b \in BookingsOf(s) : bookings[b].status = "CONFIRMED" }

\* the requests of this behaviour that ask for seats on schedule s
RequestsOn(s) == { r \in Requests : req[r].data.schedule_id = s }

RECURSIVE SumAsked(_)
SumAsked(R) ==
    IF R = {} THEN 0
    ELSE LET r == CHOOSE x \in R : TRUE IN NumPassengers(r) + SumAsked(R \ {r})

\* the seats of schedule s that were free before any request of this
\* behaviour arrived
InitialFree(s) ==
    TotalSeats(s) - SumPassengers({ b \in BookingsOf(s) : bookings[b].by = 0 })

AllDone == \A r \in Requests : req[r].pc = "done"

Rejected(r) == req[r].pc = "done" /\ req[r].outcome # "committed"

C2_SeatUniqueness ==
    \A p1, p2 \in passengers :
        (/\ p1 # p2
         /\ bookings[p1.booking].schedule = bookings[p2.booking].schedule)
        => p1.seat_number # p2.seat_number

\* three bookings are committed, two of them on schedule 1, and seat 1 is
\* taken on schedule 1 and on schedule 2 alike
C2_Witness ==
    /\ Cardinality(BookingsOf(1)) >= 2
    /\ \E p1, p2 \in passengers :
          /\ bookings[p1.booking].schedule = 1
          /\ bookings[p2.booking].schedule = 2
          /\ p1.seat_number = p2.seat_number

\* the tables a rolled-back request must leave as they were
Ledger == <<bookings, passengers, avail>>

\* request r is answered in this step with a committed booking
Commits(r) ==
    /\ req[r].pc # "done"
    /\ req'[r].pc = "done"
    /\ req'[r].outcome = "committed"

\* request r's transaction commits in this step: one Booking row, its
\* num_passengers Passenger rows and the ledger update appear together
CommitStep(r) ==
    /\ Commits(r)
    /\ LET s == req[r].data.schedule_id
           n == NumPassengers(r)
           id == Len(bookings) + 1 IN
         /\ Len(bookings') = id
         /\ SubSeq(bookings', 1, Len(bookings)) = bookings
         /\ bookings'[id].by = r
         /\ bookings'[id].schedule = s
         /\ bookings'[id].num_passengers = n
         /\ passengers \subseteq passengers'
         /\ Cardinality(passengers' \ passengers) = n
         /\ \A p \in passengers' \ passengers : p.booking = id
         /\ avail'[s].booked_seats = avail[s].booked_seats + n
         /\ avail'[s].version = avail[s].version + 1
         /\ \A x \in DOMAIN avail \ {s} : avail'[x] = avail[x]

\* C3 (atomicity): a request that ends without committing leaves bookings,
\* passengers and the ledger exactly as they were; the tables change only in
\* a step that commits one request, and then the Booking, all its Passengers
\* and the ledger update appear in that one step; no row of a request that
\* has not committed is ever in the tables.
C3_Atomicity ==
    /\ [][ /\ \A r \in Requests :
                (/\ req[r].pc # "done"
                 /\ req'[r].pc = "done"
                 /\ req'[r].outcome # "committed") => Ledger' = Ledger
           /\ \A r \in Requests : Commits(r) => CommitStep(r)
           /\ Ledger' # Ledger => \E r \in Requests : CommitStep(r)
         ]_vars
    /\ [](\A b \in 1..Len(bookings) :
             /\ bookings[b].by # 0 => req[bookings[b].by].outcome = "committed"
             /\ Cardinality({ p \in passengers : p.booking = b })
                  = bookings[b].num_passengers)
    /\ [](\A p \in passengers : p.booking \in 1..Len(bookings))

\* a request failed after its Booking and Passengers were inserted (its
\* conditional update matched no row) and left no row behind, while the
\* request it raced with is fully visible
C3_Witness ==
    \E q, r \in Requests :
        /\ req[r].pc = "done"
        /\ req[r].updated = 0
        /\ req[r].outcome = "concurrent"
        /\ \A b \in 1..Len(bookings) : bookings[b].by # r
        /\ req[q].outcome = "committed"
        /\ \E b \in 1..Len(bookings) :
              /\ bookings[b].by = q
              /\ Cardinality({ p \in passengers : p.booking = b }) = NumPassengers(q)

InitialBooked(s) == TotalSeats(s) - InitialFree(s)

\* q and r are the two requests on schedule s; each alone fits in the seats
\* that were free, both together do not
RacingPair(s, q, r) ==
    /\ q # r
    /\ RequestsOn(s) = {q, r}
    /\ NumPassengers(q) <= InitialFree(s)
    /\ NumPassengers(r) <= InitialFree(s)
    /\ NumPassengers(q) + NumPassengers(r) > InitialFree(s)

Committed(r) == req[r].pc = "done" /\ req[r].outcome = "committed"

\* C4 as claimed: once both requests of a racing pair are answered, exactly
\* one has committed, the other is rejected, and booked_seats is the initial
\* value plus the admitted request's passenger count.
C4_ExactlyOneCommits ==
    \A s \in DOMAIN avail : \A q, r \in Requests :
        (RacingPair(s, q, r) /\ req[q].pc = "done" /\ req[r].pc = "done")
        => /\ \/ Committed(q) /\ Rejected(r)
              \/ Committed(r) /\ Rejected(q)
           /\ avail[s].booked_seats
                = InitialBooked(s)
                  + (IF Committed(q) THEN NumPassengers(q) ELSE NumPassengers(r))

\* C4 (amended): once both requests of a racing pair are answered, at most
\* one has committed and at least one is rejected, booked_seats is the
\* initial value plus the passenger count of the request that committed (if
\* any), and exactly one has committed unless a transaction was aborted by
\* an exception other than the two rejections of create().
C4_AtMostOneCommits ==
    \A s \in DOMAIN avail : \A q, r \in Requests :
        (RacingPair(s, q, r) /\ req[q].pc = "done" /\ req[r].pc = "done")
        => /\ ~(Committed(q) /\ Committed(r))
           /\ Rejected(q) \/ Rejected(r)
           /\ avail[s].booked_seats
                = InitialBooked(s)
                  + (IF Committed(q) THEN NumPassengers(q) ELSE 0)
                  + (IF Committed(r) THEN NumPassengers(r) ELSE 0)
           /\ (req[q].outcome # "error" /\ req[r].outcome # "error")
                 => (Committed(q) \/ Committed(r))

\* with row locking, one request of a racing pair on schedule 1 committed
\* and the other was told the seats were insufficient
C4_Witness ==
    /\ rowLocking
    /\ \E q, r \in Requests :
          /\ RacingPair(1, q, r)
          /\ Committed(q)
          /\ req[r].pc = "done"
          /\ req[r].outcome = "insufficient"
          /\ avail[1].booked_seats = InitialBooked(1) + NumPassengers(q)

\* the seats of schedule s that are free in the committed ledger
FreeSeats(s) == TotalSeats(s) - avail[s].booked_seats

\* C5 (insufficient seats): when a request for n passengers is checked
\* against a ledger with fewer than n free seats (is_valid(), or the locked
\* re-check in create()), the request ends there, the error it is answered
\* with reports exactly that free-seat count, and no Booking, Passenger or
\* ledger value changes; a request never commits more passengers than the
\* seats free at its commit.
C5_InsufficientSeats ==
    [][ \A r \in Requests :
          LET s == req[r].data.schedule_id IN
          /\ (/\ req[r].pc \in {"start", "begin"}
              /\ req'[r] # req[r]
              /\ FreeSeats(s) < NumPassengers(r))
             => /\ req'[r].pc = "done"
                /\ req'[r].outcome \in {"insufficient", "error"}
                /\ req'[r].outcome = "insufficient"
                      => req'[r].reported = FreeSeats(s)
                /\ req[r].pc = "start" => req'[r].outcome = "insufficient"
                /\ Ledger' = Ledger
          /\ (req'[r].pc = "done" /\ req'[r].outcome = "insufficient")
             => /\ req'[r].reported >= 0
                /\ req'[r].reported < NumPassengers(r)
          /\ Commits(r) => NumPassengers(r) <= FreeSeats(s)
      ]_vars

\* a request for more passengers than the one free seat left on schedule 1
\* was rejected with 1 reported, and no row of it exists
C5_Witness ==
    \E r \in Requests :
        /\ req[r].pc = "done"
        /\ req[r].outcome = "insufficient"
        /\ req[r].data.schedule_id = 1
        /\ req[r].reported = 1
        /\ FreeSeats(1) = 1
        /\ NumPassengers(r) = 2
        /\ \A b \in 1..Len(bookings) : bookings[b].by # r

\* the Passenger rows of booking id, as (position, name, seat_number)
SeatsOf(T, id) == { <<p.pos, p.name, p.seat_number>> : p \in { x \in T : x.booking = id } }

\* C6 (seat assignment): a request for n passengers that commits on a
\* ledger with booked_seats = b and version = v gives the passenger at
\* 0-based input position i the seat b + i + 1 and leaves booked_seats = b + n
\* and version = v + 1.
C6_SeatAssignment ==
    [][ \A r \in Requests :
          Commits(r) =>
            LET s == req[r].data.schedule_id
                b == avail[s].booked_seats
                v == avail[s].version
                n == NumPassengers(r) IN
            /\ SeatsOf(passengers', Len(bookings'))
                 = { <<i + 1, req[r].data.passengers[i + 1].name, b + i + 1>> :
                       i \in 0..(n - 1) }
            /\ avail'[s] = [booked_seats |-> b + n, version |-> v + 1]
      ]_vars

\* a request for two passengers committed on schedule 2 from a fresh
\* ledger: seats 1 and 2 in input order, booked 2, version 1
C6_Witness ==
    \E b \in BookingsOf(2) :
        /\ bookings[b].by # 0
        /\ SeatsOf(passengers, b) = { <<1, 1, 1>>, <<2, 2, 2>> }
        /\ avail[2] = [booked_seats |-> 2, version |-> 1]

UpdateStep(r) ==
    /\ req[r].pc = "passengers"
    /\ req[r].updated = -1
    /\ req'[r].updated # -1

\* C8 (conditional update): the update keyed on the expected version e
\* matches one row iff the stored version equals e; on a match it writes
\* booked_seats = the new value and version = e + 1 (visible at commit); with
\* a stale e it matches no row, writes nothing and the request is rejected.
C8_ConditionalUpdate ==
    [][ \A r \in Requests :
          LET s == req[r].data.schedule_id
              e == req[r].availability.version
              new == req[r].availability.booked_seats + NumPassengers(r) IN
          /\ UpdateStep(r) =>
               /\ req'[r].updated = (IF avail[s].version = e THEN 1 ELSE 0)
               /\ req'[r].updated = 1
                    => req'[r].tAvail = << [booked_seats |-> new, version |-> e + 1] >>
               /\ req'[r].updated = 0
                    => /\ req'[r].tAvail = << >>
                       /\ req'[r].pc = "done"
                       /\ req'[r].outcome = "concurrent"
               /\ avail' = avail
          /\ Commits(r) =>
               /\ req[r].updated = 1
               /\ avail'[s] = [booked_seats |-> new, version |-> e + 1]
      ]_vars

\* two updates carried the same expected version: the first matched one row
\* and was committed, the second then matched none and the row kept the
\* first one's values
C8_Witness ==
    \E q, r \in Requests :
        /\ req[q].updated = 1
        /\ Committed(q)
        /\ req[r].updated = 0
        /\ req[r].data.schedule_id = req[q].data.schedule_id
        /\ avail[req[q].data.schedule_id].booked_seats
             = InitialBooked(req[q].data.schedule_id) + NumPassengers(q)

\* C9: for every schedule that has a ledger row, in every state reachable by
\* booking requests and administrative create-or-update requests,
\* booked_seats <= train.total_seats, so available_seats is never negative.
C9_BookedWithinCapacity ==
    \A s \in DOMAIN avail :
        /\ avail[s].booked_seats <= TotalSeats(s)
        /\ available_seats(avail[s], TotalSeats(s)) >= 0

\* the bodies C10 names: a passenger list of length 0 or more than 6, an
\* age outside 1..120, an unrecognised gender, or a schedule id that is
\* unknown, inactive (schedule or train) or dated before today
BadBody(data) ==
    \/ Len(data.passengers) = 0
    \/ Len(data.passengers) > 6
    \/ \E i \in 1..Len(data.passengers) :
          \/ data.passengers[i].age < 1
          \/ data.passengers[i].age > 120
          \/ data.passengers[i].gender \notin {"M", "F", "O"}
    \/ data.schedule_id \notin DOMAIN schedules
    \/ /\ data.schedule_id \in DOMAIN schedules
       /\ \/ ~schedules[data.schedule_id].is_active
          \/ ~trains[schedules[data.schedule_id].train].is_active
          \/ schedules[data.schedule_id].runs_on < today

\* C10: a request whose body is one of those is rejected during validation:
\* its only step ends it with the validation error, create() is never
\* entered (no transaction, no lock, no pending write), and that step
\* changes no Booking, Passenger or ledger value.
C10_ValidationRejects ==
    [][\A r \in Requests :
          (req[r].pc = "start" /\ BadBody(req[r].data) /\ req'[r] # req[r]) =>
             /\ req'[r].pc = "done"
             /\ req'[r].outcome = "invalid"
             /\ req'[r].booking = << >>
             /\ req'[r].tPassengers = << >>
             /\ req'[r].tAvail = << >>
             /\ Ledger' = Ledger
             /\ lockHolder' = lockHolder]_vars

\* a request for a schedule dated before today has been rejected as invalid
\* while another request's booking is in the store, untouched by it
C10_Witness ==
    \E r \in Requests :
        /\ req[r].pc = "done"
        /\ req[r].outcome = "invalid"
        /\ req[r].data.schedule_id \in DOMAIN schedules
        /\ schedules[req[r].data.schedule_id].runs_on < today
        /\ Len(bookings) = 1
        /\ bookings[1].by # r

\* the conditional update of request r is about to match no row: every
\* passenger is written and the stored version is no longer the one read
LostUpdate(r) ==
    /\ req[r].pc = "passengers"
    /\ Len(req[r].tPassengers) = NumPassengers(r)
    /\ avail[req[r].data.schedule_id].version # req[r].availability.version

\* C11: when the conditional ledger update of createBooking affects zero
\* rows, the request ends with the concurrent-modification rejection, whose
\* response differs from every insufficient-seats response, and the
\* request is not retried: a finished request never runs again.
C11_ConcurrentRejection ==
    /\ [][\A r \in Requests :
            (LostUpdate(r) /\ req'[r] # req[r] /\ req'[r].outcome # "error") =>
               /\ req'[r].pc = "done"
               /\ req'[r].outcome = "concurrent"
               /\ Response(req'[r]).status = HTTP_400_BAD_REQUEST
               /\ Response(req'[r]).text =
                     "Booking failed due to concurrent booking. Please try again."
               /\ \A n \in -1..MaxSeats, sv \in BOOLEAN :
                     Response(req'[r]) #
                       Response([req'[r] EXCEPT !.outcome = "insufficient",
                                                !.reported = n, !.saved = sv])
               /\ Ledger' = Ledger]_vars
    /\ [][\A r \in Requests : req[r].pc = "done" => req'[r] = req[r]]_vars

\* a request whose conditional update matched no row has been answered
\* with the concurrent-booking error, after the request that overtook it
\* committed
C11_Witness ==
    \E q, r \in Requests :
        /\ req[q].pc = "done" /\ req[q].outcome = "concurrent" /\ req[q].updated = 0
        /\ Response(req[q]).key = "error"
        /\ req[r].pc = "done" /\ req[r].outcome = "committed"
        /\ req[r].data.schedule_id = req[q].data.schedule_id

\* C12: every Booking committed by createBooking (by a request, not the
\* earlier stock) has status CONFIRMED and a confirmation time, total_fare
\* equal to the schedule's base_fare times the number of passengers of the
\* request, num_passengers equal to that number, and that many Passenger
\* rows.
C12_CommittedBooking ==
    \A b \in 1..Len(bookings) :
        bookings[b].by # 0 =>
           LET r == bookings[b].by
               n == Len(req[r].data.passengers) IN
             /\ bookings[b].status = "CONFIRMED"
             /\ bookings[b].confirmed_at \in Days
             /\ bookings[b].total_fare = schedules[bookings[b].schedule].base_fare * n
             /\ bookings[b].num_passengers = n
             /\ Cardinality({ p \in passengers : p.booking = b }) = n

\* a booking of two passengers on the schedule with fare 2 is in the store
C12_Witness ==
    \E b \in 1..Len(bookings) :
        /\ bookings[b].by # 0
        /\ bookings[b].schedule = 2
        /\ schedules[2].base_fare = 2
        /\ bookings[b].num_passengers = 2
        /\ bookings[b].total_fare = 4

\* C13: reservation codes are unique: no two Booking rows have the same
\* pnr, and the insert of a booking whose pnr a stored row already has
\* fails: the request ends with an error and no Booking, Passenger or
\* ledger value is added or changed.
C13_PnrUnique ==
    /\ [](\A a, b \in 1..Len(bookings) : a # b => bookings[a].pnr # bookings[b].pnr)
    /\ [][\A r \in Requests :
            (/\ req[r].pc = "create_booking"
             /\ rng[r] \in { bookings[b].pnr : b \in 1..Len(bookings) }
             /\ req'[r] # req[r]) =>
               /\ req'[r].pc = "done"
               /\ req'[r].outcome = "error"
               /\ req'[r].booking = << >>
               /\ Ledger' = Ledger]_vars

\* two requests drew the same code: one committed its booking, the
\* other's insert failed on it and left no row
C13_Witness ==
    \E q, r \in Requests :
        /\ q # r
        /\ rng[q] = rng[r]
        /\ req[q].pc = "done" /\ req[q].outcome = "committed"
        /\ req[r].pc = "done" /\ req[r].outcome = "error"
        /\ \E b \in 1..Len(bookings) : bookings[b].by = q /\ bookings[b].pnr = rng[r]
        /\ \A b \in 1..Len(bookings) : bookings[b].by # r

\* C14: a failure of the event sink never changes the response of the
\* request being logged: the middleware returns the response the view
\* produced, and when MongoDB is unreachable or the insert or the analytics
\* update raises, log_api_request returns without raising.
C14_LoggingAbsorbed ==
    /\ [](web.pc = "returned" => web.returned = web.response)
    /\ [][(web.pc = "log" /\ web'.pc = "returned") =>
            /\ web'.returned = web.response
            /\ mongo.server # "denied" => ~web'.raised]_vars

\* a search was answered while MongoDB, connected earlier, was down: the
\* insert raised, nothing was logged and the view's response came back
C14_Witness ==
    /\ web.pc = "returned"
    /\ web.path = LOGGED_ENDPOINT
    /\ mongo.server = "down"
    /\ mongo._mongo_db
    /\ ~web.raised
    /\ web.returned = web.response
    /\ web.returned.status = HTTP_200_OK

\* C15: when the reporting store is unavailable the query operations do
\* not fail the caller: get_top_routes and get_api_logs return an empty
\* list and get_log_stats returns total_requests = 0.
C15_QueriesDegrade ==
    [][(mongo.server = "down" /\ mongo'.server = "down"
        /\ [web' EXCEPT !.result = web.result] = web /\ web'.result.op # "") =>
          /\ ~web'.result.raised
          /\ web'.result.op \in {"get_top_routes", "get_api_logs"} =>
                web'.result.list = << >>
          /\ web'.result.op = "get_log_stats" => web'.result.total_requests = 0]_vars

\* searches were logged, the server went down, and get_top_routes
\* answered with an empty list
C15_Witness ==
    /\ mongo.server = "down"
    /\ mongo._mongo_db
    /\ RouteSearches(mongo) # {}
    /\ web.result.op = "get_top_routes"
    /\ ~web.result.raised
    /\ web.result.list = << >>

\* C16: a booking request without an authenticated identity is answered
\* with HTTP 401 in its only step, post() is never run for it, and that
\* step changes no Booking, Passenger or ledger row; no stored booking
\* belongs to an anonymous request.
C16_Unauthenticated ==
    /\ [][\A r \in Requests :
            (user[r] = 0 /\ req'[r] # req[r]) =>
               /\ req'[r].pc = "done"
               /\ Response(req'[r]).status = HTTP_401_UNAUTHORIZED
               /\ ~req'[r].saved
               /\ req'[r].booking = << >>
               /\ Ledger' = Ledger
               /\ lockHolder' = lockHolder]_vars
    /\ [](\A b \in 1..Len(bookings) :
             bookings[b].by # 0 => user[bookings[b].by] # 0)

\* an anonymous request was answered 401 while an authenticated request
\* for the same schedule committed its booking
C16_Witness ==
    \E q, r \in Requests :
        /\ user[r] = 0
        /\ req[r].pc = "done"
        /\ Response(req[r]).status = HTTP_401_UNAUTHORIZED
        /\ user[q] # 0
        /\ req[q].pc = "done" /\ req[q].outcome = "committed"
        /\ req[q].data.schedule_id = req[r].data.schedule_id

\* C17: the version check alone is sufficient. Without row locking, when
\* the ledger row a booking read has been changed by any writer by the time
\* of its conditional update, the booking is rejected instead of going on
\* to commit.
C17_VersionCheckSuffices ==
    [][\A r \in Requests :
          (/\ ~rowLocking
           /\ req[r].pc = "passengers"
           /\ Len(req[r].tPassengers) = NumPassengers(r)
           /\ avail[req[r].data.schedule_id] # req[r].availability
           /\ req'[r] # req[r]) =>
             /\ req'[r].pc = "done"
             /\ req'[r].outcome # "committed"]_vars

\* C18: every operation that changes a ledger row's booked_seats, in the
\* store or among the uncommitted rows of a transaction, does so by the
\* conditional update: the row's version goes up by 1 with it; no
\* operation writes booked_seats alone.
C18_OnlyConditionalUpdates ==
    [][/\ \A s \in DOMAIN avail \cap DOMAIN avail' :
            avail'[s].booked_seats # avail[s].booked_seats =>
               avail'[s].version = avail[s].version + 1
       /\ \A k \in DOMAIN seed.avail \cap DOMAIN seed'.avail :
            seed'.avail[k].booked_seats # seed.avail[k].booked_seats =>
               seed'.avail[k].version = seed.avail[k].version + 1]_vars

\* C19: in every reachable state each schedule has its seat-ledger row:
\* the administrative operation creates both together, so no schedule
\* is observable without its ledger, even when the request fails part-way.
C19_LedgerPerSchedule ==
    \A s \in 1..Len(schedules) : s \in DOMAIN avail

\* C20: a schedule's capacity is fixed once the schedule exists: no step,
\* an administrative request reusing the train number included, changes
\* the total_seats its availability is computed from.
C20_CapacityFixed ==
    [][\A s \in 1..Len(schedules) :
          trains'[schedules'[s].train].total_seats =
             trains[schedules[s].train].total_seats]_vars

\* q and r are different requests whose conditional updates were both run
\* on the row of the same schedule with the same expected version
SameVersionUpdates(q, r) ==
    /\ q # r
    /\ req[q].data.schedule_id = req[r].data.schedule_id
    /\ req[q].updated # -1
    /\ req[r].updated # -1
    /\ req[q].expected = req[r].expected

\* the update of request r matched a row and was not rolled back
UpdateStands(r) ==
    /\ req[r].updated = 1
    /\ req[r].pc = "commit" \/ req[r].outcome = "committed"

C22_NoConcurrentRejection ==
    /\ [][\A r \in Requests :
            (rowLocking /\ UpdateStep(r)) =>
               /\ req'[r].updated = 1
               /\ avail[req[r].data.schedule_id].version = req[r].availability.version]_vars
    /\ [](rowLocking => \A r \in Requests :
             req[r].outcome # "concurrent" /\ req[r].updated # 0)

\* with row locking, two requests for schedule 1 have both committed, one
\* having waited for the lock of the other; both updates matched one row
C22_Witness ==
    /\ rowLocking
    /\ \E q, r \in Requests :
          /\ q # r
          /\ req[q].data.schedule_id = 1 /\ req[r].data.schedule_id = 1
          /\ Committed(q) /\ req[q].updated = 1
          /\ Committed(r) /\ req[r].updated = 1
          /\ req[q].expected + 1 = req[r].expected

\* the ledger rows whose lock request r holds
LocksOf(r) == { s \in ScheduleIds : lockHolder[s] = r }

\* C23: under fair scheduling every createBooking request eventually
\* finishes, with a committed booking or a rejection; a request waiting for
\* a ledger row lock gets past the locked read once the holder has
\* committed or rolled back; a transaction holds at most one ledger lock,
\* that of its own schedule; so no set of requests deadlocks.
C23_EveryRequestFinishes ==
    /\ \A r \in Requests :
          <>(/\ req[r].pc = "done"
             /\ req[r].outcome \in {"committed", "invalid", "insufficient",
                                    "concurrent", "error"})
    /\ \A r \in Requests :
          (req[r].pc = "begin" /\ lockHolder[req[r].data.schedule_id] \notin {0, r})
             ~> (lockHolder[req[r].data.schedule_id] = 0 /\ req[r].pc # "begin")
    /\ [](\A r \in Requests :
             /\ Cardinality(LocksOf(r)) <= 1
             /\ LocksOf(r) \subseteq {req[r].data.schedule_id}
             /\ LocksOf(r) # {} => req[r].pc \in {"create_booking", "passengers", "commit"})

\* a request waits at its locked read for the row another request holds,
\* and that request waits for nothing
C23_Witness ==
    /\ rowLocking
    /\ \E q, r \in Requests :
          /\ q # r
          /\ req[r].pc = "begin"
          /\ lockHolder[req[r].data.schedule_id] = q
          /\ req[q].pc = "passengers"
          /\ ENABLED Proceed(q)

\* the seat numbers of the Passenger rows of booking b
SeatNumbersOf(b) == { p.seat_number : p \in { x \in passengers : x.booking = b } }

\* C24: seat numbers follow commit order: of two bookings committed on the
\* same schedule, every seat number of the one committed first (the
\* earlier row of bookings) is lower than every seat number of the one
\* committed later, in whatever order their requests were validated.
C24_SeatsFollowCommitOrder ==
    \A s \in DOMAIN avail : \A a, b \in BookingsOf(s) :
        a < b => \A x \in SeatNumbersOf(a), y \in SeatNumbersOf(b) : x < y

\* two requests for schedule 2 were validated against the same empty
\* ledger, before either entered its transaction; the one committed first
\* has seat 1, the other the seats after it
C24_Witness ==
    \E a, b \in BookingsOf(2) :
        /\ a < b
        /\ bookings[a].by # 0 /\ bookings[b].by # 0
        /\ req[bookings[a].by].seen = 0
        /\ req[bookings[b].by].seen = 0
        /\ SeatNumbersOf(a) = {1}
        /\ SeatNumbersOf(b) = {2, 3}

\* request r has not entered transaction.atomic() yet
BeforeTransaction(r) == req[r].pc \in {"start", "begin"}

\* C25: reading availability is side-effect free: the validation phase of
\* createBooking (the field checks and validate(), with available_seats
\* and can_book) changes no booked_seats, no version and no other row,
\* however many requests run it; a request that has not reached the locked
\* re-read holds no lock and no pending write, and when it ends there
\* (rejected, or abandoned) the store is as it was.
C25_ValidationReadsOnly ==
    /\ [][\A r \in Requests :
            (req[r].pc = "start" /\ req'[r] # req[r]) =>
               /\ db' = db
               /\ lockHolder' = lockHolder]_vars
    /\ [][\A r \in Requests :
            (BeforeTransaction(r) /\ req'[r].pc = "done") => db' = db]_vars
    /\ [](\A r \in Requests :
             BeforeTransaction(r) =>
                /\ req[r].booking = << >>
                /\ req[r].tPassengers = << >>
                /\ req[r].tAvail = << >>
                /\ LocksOf(r) = {})

\* both requests ran the validation phase on schedule 1 with one seat
\* free: one was refused there (two passengers, 1 seat reported), the
\* other was abandoned after it; the ledger still has its first values
C25_Witness ==
    \E q, r \in Requests :
        /\ q # r
        /\ req[q].data.schedule_id = 1 /\ req[r].data.schedule_id = 1
        /\ req[q].pc = "done" /\ ~req[q].saved
        /\ req[q].outcome = "insufficient" /\ req[q].reported = 1
        /\ req[r].pc = "done" /\ req[r].saved /\ req[r].outcome = "error"
        /\ req[r].seen = MaxSeats - 1
        /\ avail[1] = [booked_seats |-> MaxSeats - 1, version |-> 1]
        /\ Len(bookings) = 1

\* C26: when the code drawn for a new booking is the pnr of a stored
\* Booking, creation draws again until the code is unused: the insert goes
\* through with an unused code and the request does not fail on the
\* collision.
C26_CollisionRetried ==
    [][\A r \in Requests :
          (/\ req[r].pc = "create_booking"
           /\ rng[r] \in PnrsInUse
           /\ req'[r] # req[r]) =>
             /\ req'[r].pc = "passengers"
             /\ req'[r].booking[1].pnr \notin PnrsInUse]_vars

\* C27: each recorded search event that carries a source and a destination
\* raises the route's counter in route_analytics by exactly one (from
\* absent to 1 the first time), and the top-routes report returns the
\* count held in that counter.
C27_RouteCounters ==
    [][/\ (/\ Len(mongo'.api_logs) = Len(mongo.api_logs) + 1
           /\ mongo'.api_logs[Len(mongo'.api_logs)].route)
          => mongo'.route_analytics = mongo.route_analytics + 1
       /\ (/\ web'.result # web.result
           /\ web'.result.op = "get_top_routes"
           /\ web'.result.list # << >>)
          => web'.result.list = << [search_count |-> mongo'.route_analytics] >>
      ]_vars

\* the seat numbers of all Passenger rows of the bookings of schedule s
SeatNumbersOn(s) ==
    { p.seat_number : p \in { x \in passengers : x.booking \in BookingsOf(s) } }

\* C28: in every state reached from a fresh ledger through booking
\* requests only, for each schedule booked_seats is the sum of
\* num_passengers over its bookings, the seat numbers assigned on it are
\* exactly 1..booked_seats, and version is the number of its committed
\* bookings.
C28_LedgerMatchesBookings ==
    \A s \in DOMAIN avail :
        /\ avail[s].booked_seats = SumPassengers(BookingsOf(s))
        /\ SeatNumbersOn(s) = 1..avail[s].booked_seats
        /\ Cardinality({ p \in passengers : p.booking \in BookingsOf(s) })
             = avail[s].booked_seats
        /\ avail[s].version = Cardinality(BookingsOf(s))

\* schedule 2, fresh at the start, has taken two bookings of one and two
\* passengers, and a third request for it was turned away
C28_Witness ==
    /\ Cardinality(BookingsOf(2)) = 2
    /\ avail[2] = [booked_seats |-> 3, version |-> 2]
    /\ SeatNumbersOn(2) = {1, 2, 3}
    /\ \A b \in BookingsOf(2) : bookings[b].by # 0
    /\ AllDone

\* schedule s can be booked now: it is active, its train is active and it
\* is not dated before today
Bookable(s) ==
    /\ schedules[s].is_active
    /\ trains[schedules[s].train].is_active
    /\ schedules[s].runs_on >= today

\* C29: a booking is committed only for a schedule that, at the moment of
\* the commit, is active, on an active train and not dated in the past; a
\* schedule switched off after the request's validation gets no booking
\* from it.
C29_CommitOnlyBookable ==
    [][\A r \in Requests : Commits(r) => Bookable(req[r].data.schedule_id)]_vars

\* this step calls get_mongo_db: the logging half of the middleware, or a
\* reporting read whose result is new
CallsGetMongoDb ==
    \/ web.pc = "log" /\ web'.pc = "returned"
    \/ web'.result # web.result

\* C30: unavailability of the event store is sticky within a process: a
\* connection attempt of get_mongo_db that fails sets _mongo_available to
\* False, and from then on it stays False, no call connects, no
\* log_api_request adds a document, is_mongodb_available answers False and
\* every reporting read returns its empty result, whatever the server's
\* state has become.
C30_UnavailableIsSticky ==
    /\ [][(/\ CallsGetMongoDb
           /\ mongo.server = "down"
           /\ ~mongo._mongo_db
           /\ mongo._mongo_available = "None")
          => mongo'._mongo_available = "False"]_vars
    /\ [][mongo._mongo_available = "False" =>
            /\ mongo'._mongo_available = "False"
            /\ ~mongo'._mongo_db
            /\ mongo'.api_logs = mongo.api_logs
            /\ mongo'.route_analytics = mongo.route_analytics
            /\ web'.result # web.result =>
                  /\ ~web'.result.raised
                  /\ web'.result.list = << >>
                  /\ web'.result.op = "get_log_stats" =>
                        web'.result.total_requests = 0
            /\ (web.pc = "log" /\ web'.pc = "returned") => ~web'.raised]_vars
    /\ [](mongo._mongo_available = "False" =>
             /\ ~get_mongo_db(mongo).db
             /\ ~is_mongodb_available(mongo).value)

\* the first connection failed; the server is reachable again and holds a
\* logged search, a search has since been served and a report read: the
\* search left no document, and a report read now finds no route
C30_Witness ==
    /\ mongo._mongo_available = "False"
    /\ mongo.server = "up"
    /\ mongo.api_logs = << StoredSearch >>
    /\ web.pc = "returned" /\ web.path = LOGGED_ENDPOINT /\ web.route
    /\ web.result.op = "get_top_routes"
    /\ web.result.list = << >>
    /\ get_top_routes(mongo, TRUE).list = << >>
    /\ log_api_request(mongo, StoredSearch, TRUE, TRUE).m = mongo

====
